---- MODULE Spec2Model ----
(***************************************************************************)
(* Unit conversion of MDAnalysis (MDAnalysis/core/units.py).               *)
(*                                                                         *)
(* The module is a set of dictionaries built at import time and two        *)
(* functions over them.  The numbers are Python floats, i.e. IEEE-754      *)
(* binary64 values; they are modelled bit-exactly (sign, 53-bit            *)
(* significand, binary exponent) with round-to-nearest-even, so that       *)
(* x * (f2 / f1) is computed as the interpreter computes it.               *)
(***************************************************************************)
EXTENDS Integers, Sequences, FiniteSets, TLC

(***************************************************************************)
(* Natural numbers of arbitrary size: little-endian sequences of limbs     *)
(* below Base, the highest limb nonzero; zero is the empty sequence.       *)
(***************************************************************************)
Base == 2^15

Limb(N, i) == IF 1 <= i /\ i <= Len(N) THEN N[i] ELSE 0

NatStrip(N) ==
    IF \A i \in 1..Len(N) : N[i] = 0 THEN <<>>
    ELSE SubSeq(N, 1, CHOOSE i \in 1..Len(N) :
                          N[i] # 0 /\ \A j \in (i + 1)..Len(N) : N[j] = 0)

NatFromInt(i) ==
    NatStrip(<<i % Base, (i \div Base) % Base, i \div (Base * Base)>>)

\* The carry into limb i of s, whose limbs are at most 2 * Base - 2.
NatCarryIn(s, i) ==
    IF \E j \in 1..(i - 1) :
           /\ s[j] >= Base
           /\ \A k \in (j + 1)..(i - 1) : s[k] = Base - 1
    THEN 1 ELSE 0

\* The number whose limbs, before the carries are propagated, are
\* s[1], s[2], ..., each at most 2 * Base - 2.
NatCarry(s) ==
    NatStrip([i \in 1..(Len(s) + 1) |->
                 IF i <= Len(s) THEN (s[i] + NatCarryIn(s, i)) % Base
                 ELSE NatCarryIn(s, i)])

NatAdd(A, B) ==
    NatCarry([i \in 1..(IF Len(A) >= Len(B) THEN Len(A) ELSE Len(B)) |->
                 Limb(A, i) + Limb(B, i)])

\* The borrow out of the limbs below i in A - B.
NatBorrowIn(A, B, i) ==
    IF \E j \in 1..(i - 1) :
           /\ A[j] < Limb(B, j)
           /\ \A k \in (j + 1)..(i - 1) : A[k] = Limb(B, k)
    THEN 1 ELSE 0

\* A - B, for A >= B
NatSub(A, B) ==
    NatStrip([i \in 1..Len(A) |->
                 (A[i] - Limb(B, i) - NatBorrowIn(A, B, i) + Base) % Base])

\* -1, 0, 1 as A < B, A = B, A > B
NatCmp(A, B) ==
    IF Len(A) # Len(B) THEN (IF Len(A) < Len(B) THEN -1 ELSE 1)
    ELSE IF A = B THEN 0
    ELSE IF \E i \in 1..Len(A) :
                /\ A[i] < B[i]
                /\ \A j \in (i + 1)..Len(A) : A[j] = B[j]
    THEN -1 ELSE 1

\* N * k, for 0 <= k <= Base
NatMulSmall(N, k) ==
    NatCarry([i \in 1..(Len(N) + 1) |->
                 ((Limb(N, i) * k) % Base) + ((Limb(N, i - 1) * k) \div Base)])

\* The low (h = 0) or high (h = 1) half of the product of two limbs.
NatMulHalf(a, b, h) == IF h = 0 THEN (a * b) % Base ELSE (a * b) \div Base

\* The sum over the limbs B[j] of the low (h = 0) or high (h = 1) halves of
\* the products A[c - j + 1] * B[j]; B has at most four limbs.
NatMulColumn(A, B, c, h) ==
    NatMulHalf(Limb(A, c), Limb(B, 1), h) + NatMulHalf(Limb(A, c - 1), Limb(B, 2), h)
    + NatMulHalf(Limb(A, c - 2), Limb(B, 3), h) + NatMulHalf(Limb(A, c - 3), Limb(B, 4), h)

\* The number whose columns, before the carries between them, are t[1..n].
NatMulCarry(t, n) ==
    NatCarry([c \in 1..n |-> (t[c] % Base) + (t[c - 1] \div Base)])

\* A * B, for B < Base^4
NatMul(A, B) ==
    NatMulCarry([c \in 0..(Len(A) + 5) |->
                    NatMulColumn(A, B, c, 0) + NatMulColumn(A, B, c - 1, 1)],
                Len(A) + 5)

NatShiftLeft(N, s) ==
    LET a == s \div 15
        r == s % 15
    IN  NatStrip([i \in 1..(Len(N) + a + 1) |->
                     ((Limb(N, i - a) * 2^r) % Base)
                     + (Limb(N, i - a - 1) \div 2^(15 - r))])

\* floor(N / 2^s), and whether a nonzero bit was shifted out
NatShiftRight(N, s) ==
    LET a == s \div 15
        r == s % 15
    IN  [n |-> NatStrip([i \in 1..Len(N) |->
                            (Limb(N, i + a) \div 2^r)
                            + ((Limb(N, i + a + 1) % 2^r) * 2^(15 - r))]),
         sticky |-> (\E i \in 1..a : Limb(N, i) # 0) \/ (Limb(N, a + 1) % 2^r) # 0]

\* the number of bits of a limb k > 0
SmallBitLen(k) == CHOOSE b \in 1..15 : 2^(b - 1) <= k /\ k < 2^b

NatBitLen(N) ==
    IF N = <<>> THEN 0 ELSE 15 * (Len(N) - 1) + SmallBitLen(N[Len(N)])

NatIsOdd(N) == Limb(N, 1) % 2 = 1

RECURSIVE NatDivDigit(_, _, _, _)
\* The digit of the long division whose remainder so far, with the next limb
\* of the dividend taken in, is R: the largest q' <= q with st.d * q' <= R,
\* where P = st.d * q and q is at most 2 too large.
NatDivDigit(st, R, q, P) ==
    IF NatCmp(P, R) <= 0
    THEN [st EXCEPT !.q = <<q>> \o @, !.r = NatSub(R, P), !.i = @ - 1]
    ELSE NatDivDigit(st, R, q - 1, NatSub(P, st.d))

\* The digit for the remainder R, from the estimate qhat of it.
NatDivEstimate(st, R, qhat) ==
    IF qhat = 0 \/ R = <<>>
    THEN [st EXCEPT !.q = <<0>> \o @, !.r = R, !.i = @ - 1]
    ELSE NatDivDigit(st, R, qhat, NatMulSmall(st.d, qhat))

\* The digit for the remainder R: it is estimated from the leading limbs;
\* the highest limb of st.d is at least Base / 2, so the estimate is at most
\* 2 too large.
NatDivRemainder(st, R) ==
    LET n   == Len(st.d)
        est == (Limb(R, n + 1) * Base + Limb(R, n)) \div st.d[n]
    IN  NatDivEstimate(st, R, IF est >= Base THEN Base - 1 ELSE est)

\* One step of the long division of st.n by st.d (Knuth's algorithm D): the
\* remainder takes the limb st.n[st.i].
NatDivStep(st) == NatDivRemainder(st, NatStrip(<<st.n[st.i]>> \o st.r))

RECURSIVE NatDivLoop(_, _)
\* the steps for the limbs st.n[st.i] down to st.n[stop + 1]
NatDivLoop(st, stop) ==
    IF st.i <= stop THEN st
    ELSE IF st.i = stop + 1 THEN NatDivStep(st)
    ELSE NatDivLoop(NatDivLoop(st, stop + (st.i - stop) \div 2), stop)

\* the quotient and the exactness in the final state of the long division
NatDivResult(st) == [q |-> NatStrip(st.q), exact |-> st.r = <<>>]

\* floor(Nn / Dn), for Dn with its highest limb at least Base / 2
NatDivNormal(Nn, Dn) ==
    LET k == IF Len(Nn) >= Len(Dn) THEN Len(Nn) - Len(Dn) + 1 ELSE 0
    IN  NatDivResult(NatDivLoop([n |-> Nn, d |-> Dn, q |-> <<>>,
                                 r |-> SubSeq(Nn, k + 1, Len(Nn)), i |-> k], 0))

\* floor(N / D) for D > 0, and whether D divides N
NatDiv(N, D) ==
    LET t == 15 - SmallBitLen(D[Len(D)])
    IN  NatDivNormal(NatShiftLeft(N, t), NatShiftLeft(D, t))

(***************************************************************************)
(* Python floats: IEEE-754 binary64.  A nonzero value is                   *)
(* (-1)^sign * m * 2^e with 2^52 <= m < 2^53; zero has m = <<>>, e = 0.    *)
(* Every exponent met here lies far inside the binary64 range, so          *)
(* overflow, underflow and subnormals do not arise.                        *)
(***************************************************************************)
FZero(sign) == [sign |-> sign, m |-> <<>>, e |-> 0]

FIsZero(a) == a.m = <<>>

\* The float (-1)^sign * r * 2^e for 2^52 <= r <= 2^53.
FRoundCarry(sign, r, e) ==
    IF NatBitLen(r) = 54
    THEN [sign |-> sign, m |-> NatShiftRight(r, 1).n, e |-> e + 1]
    ELSE [sign |-> sign, m |-> r, e |-> e]

\* Round to nearest, ties to even: trunc is the 53-bit truncation, guard
\* the first bit dropped, rest whether anything nonzero lies below it.
FRoundNearest(sign, trunc, e, guard, rest) ==
    IF guard /\ (rest \/ NatIsOdd(trunc))
    THEN FRoundCarry(sign, NatAdd(trunc, <<1>>), e)
    ELSE FRoundCarry(sign, trunc, e)

\* t is the value shifted right so that 54 bits remain.
FRoundGuard(sign, t, e, sticky) ==
    FRoundNearest(sign, NatShiftRight(t.n, 1).n, e, NatIsOdd(t.n), t.sticky \/ sticky)

\* FRound for N of bl > 0 bits
FRoundBits(sign, N, e, sticky, bl) ==
    IF bl <= 53
    THEN [sign |-> sign, m |-> NatShiftLeft(N, 53 - bl), e |-> e - (53 - bl)]
    ELSE FRoundGuard(sign, NatShiftRight(N, bl - 54), e + (bl - 53), sticky)

\* The float nearest to (-1)^sign * (N + f) * 2^e, ties to even, where
\* 0 <= f < 1 and f # 0 iff sticky (sticky only with N >= 2^53).
FRound(sign, N, e, sticky) ==
    IF N = <<>> THEN FZero(sign) ELSE FRoundBits(sign, N, e, sticky, NatBitLen(N))

\* FRound of the quotient d, as NatDiv returns it
FQuotRound(sign, d, e) ==
    IF d.exact THEN FRound(sign, d.q, e, FALSE) ELSE FRound(sign, d.q, e, TRUE)

\* The float nearest to (-1)^sign * (N / D) * 2^e, for N > 0 and D > 0
FQuot(sign, N, D, e) ==
    LET bn == NatBitLen(N)
        bd == NatBitLen(D)
        s  == IF 56 + bd > bn THEN 56 + bd - bn ELSE 0
    IN  IF bn = 0 \/ bd = 0 THEN FZero(sign)
        ELSE FQuotRound(sign, NatDiv(NatShiftLeft(N, s), D), e - s)

RECURSIVE NatPow10(_, _)
\* N * 10^k
NatPow10(N, k) ==
    IF k = 0 \/ N = <<>> THEN N
    ELSE IF k >= 4 THEN NatPow10(NatMulSmall(N, 10000), k - 4)
    ELSE NatPow10(NatMulSmall(N, 10), k - 1)

\* The float a decimal literal mant * 10^e10 denotes (correctly rounded),
\* for 0 <= mant < 2^31.
FLit(mant, e10) ==
    IF mant = 0 THEN FZero(0)
    ELSE IF e10 >= 0
    THEN FRound(0, NatPow10(NatFromInt(mant), e10), 0, FALSE)
    ELSE FQuot(0, NatFromInt(mant), NatPow10(<<1>>, -e10), 0)

\* float(i) for a Python int i, |i| < 2^31
FFromInt(i) ==
    IF i < 0 THEN FRound(1, NatFromInt(-i), 0, FALSE)
    ELSE FRound(0, NatFromInt(i), 0, FALSE)

FNeg(a) == [a EXCEPT !.sign = 1 - a.sign]

FAbs(a) == [a EXCEPT !.sign = 0]

\* a * b
FMul(a, b) ==
    IF FIsZero(a) \/ FIsZero(b) THEN FZero((a.sign + b.sign) % 2)
    ELSE FRound((a.sign + b.sign) % 2, NatMul(a.m, b.m), a.e + b.e, FALSE)

\* a / b for b # 0
FDiv(a, b) ==
    IF ~FIsZero(b) /\ FIsZero(a) THEN FZero((a.sign + b.sign) % 2)
    ELSE FQuot((a.sign + b.sign) % 2, a.m, b.m, a.e - b.e)

\* a + b for nonzero a and b given as A * 2^e0 and B * 2^e0
FAddAligned(a, b, A, B, e0) ==
    IF a.sign = b.sign THEN FRound(a.sign, NatAdd(A, B), e0, FALSE)
    ELSE IF NatCmp(A, B) = 0 THEN FZero(0)
    ELSE IF NatCmp(A, B) > 0 THEN FRound(a.sign, NatSub(A, B), e0, FALSE)
    ELSE FRound(b.sign, NatSub(B, A), e0, FALSE)

\* a + b
FAdd(a, b) ==
    IF FIsZero(a) THEN (IF FIsZero(b) /\ a.sign # b.sign THEN FZero(0) ELSE b)
    ELSE IF FIsZero(b) THEN a
    ELSE LET e0 == IF a.e < b.e THEN a.e ELSE b.e
         IN  FAddAligned(a, b, NatShiftLeft(a.m, a.e - e0),
                         NatShiftLeft(b.m, b.e - e0), e0)

FSub(a, b) == FAdd(a, FNeg(b))

\* a == b (Python's ==: the two zeros are equal)
FEq(a, b) == (FIsZero(a) /\ FIsZero(b)) \/ a = b

\* |a| < |b|
FMagLt(a, b) ==
    IF FIsZero(b) THEN FALSE
    ELSE IF FIsZero(a) THEN TRUE
    ELSE a.e < b.e \/ (a.e = b.e /\ NatCmp(a.m, b.m) < 0)

\* a < b
FLt(a, b) ==
    IF FEq(a, b) THEN FALSE
    ELSE IF FIsZero(a) THEN b.sign = 0
    ELSE IF FIsZero(b) THEN a.sign = 1
    ELSE IF a.sign # b.sign THEN a.sign = 1
    ELSE IF a.sign = 0 THEN FMagLt(a, b) ELSE FMagLt(b, a)

\* a <= b
FLe(a, b) == FEq(a, b) \/ FLt(a, b)

(***************************************************************************)
(* The module's data (units.py, lines 72-126).                             *)
(***************************************************************************)
\* lengthUnit_factor = {'Angstrom': 1.0, 'A': 1.0, 'Å': 1.0,
\*                      'nm': 1.0/10, 'nanometer': 1.0/10}
lengthUnit_factor ==
    ("Angstrom" :> FLit(10, -1)) @@ ("A" :> FLit(10, -1)) @@ ("Å" :> FLit(10, -1))
    @@ ("nm" :> FDiv(FLit(10, -1), FFromInt(10)))
    @@ ("nanometer" :> FDiv(FLit(10, -1), FFromInt(10)))

\* N_Avogadro = 6.02214179e+23
N_Avogadro == FLit(602214179, 15)

\* water = {'exp':0.997, 'SPC':0.985, 'TIP3P':1.002, 'TIP4P':1.001,
\*          'MolarMass': 18.016}
water ==
    ("exp" :> FLit(997, -3)) @@ ("SPC" :> FLit(985, -3))
    @@ ("TIP3P" :> FLit(1002, -3)) @@ ("TIP4P" :> FLit(1001, -3))
    @@ ("MolarMass" :> FLit(18016, -3))

\* 1/(1e-24*N_Avogadro*water[model] / water['MolarMass'])    (lines 102-105)
WaterDensityFactor(model) ==
    FDiv(FFromInt(1),
         FDiv(FMul(FMul(FLit(1, -24), N_Avogadro), water[model]),
              water["MolarMass"]))

densityUnit_factor ==
    ("Angstrom^{-3}" :> FDiv(FFromInt(1), FLit(10, -1)))
    @@ ("A^{-3}" :> FDiv(FFromInt(1), FLit(10, -1)))
    @@ ("Å^{-3}" :> FDiv(FFromInt(1), FLit(10, -1)))
    @@ ("nm^{-3}" :> FDiv(FFromInt(1), FLit(1, -3)))
    @@ ("nanometer^{-3}" :> FDiv(FFromInt(1), FLit(1, -3)))
    @@ ("Molar" :> FDiv(FFromInt(1), FMul(FLit(1, -27), N_Avogadro)))
    @@ ("SPC" :> WaterDensityFactor("SPC"))
    @@ ("TIP3P" :> WaterDensityFactor("TIP3P"))
    @@ ("TIP4P" :> WaterDensityFactor("TIP4P"))
    @@ ("water" :> WaterDensityFactor("exp"))

\* Variant of timeUnit_factor: 'second' written with integers, 1/10**12,
\* which the integer division of Python 2 truncates to 0.
timeUnit_factor_truncated ==
    ("ps" :> FDiv(FFromInt(1), FLit(10, -1)))
    @@ ("ns" :> FDiv(FFromInt(1), FLit(1, 3)))
    @@ ("second" :> FZero(0))
    @@ ("AKMA" :> FDiv(FFromInt(1), FLit(4888821, -8)))

\* timeUnit_factor = {'ps': 1/1.0, 'ns': 1/1e3, 'second': 1/1e12,
\*                    'AKMA': 1/4.888821e-2}
timeUnit_factor ==
    ("ps" :> FDiv(FFromInt(1), FLit(10, -1)))
    @@ ("ns" :> FDiv(FFromInt(1), FLit(1, 3)))
    @@ ("second" :> FDiv(FFromInt(1), FLit(1, 12)))
    @@ ("AKMA" :> FDiv(FFromInt(1), FLit(4888821, -8)))

\* conversion_factor as the module statement on lines 123-126 builds it
conversion_factor_literal ==
    ("length" :> lengthUnit_factor) @@ ("density" :> densityUnit_factor)
    @@ ("time" :> timeUnit_factor)

(***************************************************************************)
(* State.                                                                  *)
(***************************************************************************)
VARIABLES
    conversion_factor,  \* dict: unit type -> (dict: unit -> float)
    unit_types,         \* dict: unit -> unit type, filled by the import loop
    pc,                 \* "load" (import running), "ready", "returned"
    types_left,         \* items of conversion_factor the outer loop has yet to visit
    utype,              \* the outer loop's variable
    units_left,         \* keys of ufactor the inner loop has yet to visit
    result              \* the last call and how it ended

vars == <<conversion_factor, unit_types, pc, types_left, utype, units_left, result>>

(***************************************************************************)
(* How a call ends: a returned float or a raised exception.                *)
(***************************************************************************)
Returns(v) == [kind |-> "value", val |-> v, key |-> "", msg |-> ""]

Raises(kind, key, msg) == [kind |-> kind, val |-> FZero(0), key |-> key, msg |-> msg]

NoOutcome == [kind |-> "none", val |-> FZero(0), key |-> "", msg |-> ""]

NoCall ==
    [fn |-> "none", unit_type |-> "", x |-> FZero(0), u1 |-> "", u2 |-> "",
     out |-> NoOutcome]

\* d[k] = v on a Python dict
DictSet(d, k, v) == [j \in DOMAIN d \cup {k} |-> IF j = k THEN v ELSE d[j]]

(***************************************************************************)
(* Import: lines 123-132.                                                  *)
(***************************************************************************)
Init ==
    /\ conversion_factor = conversion_factor_literal
    /\ unit_types = <<>>
    /\ pc = "load"
    /\ types_left = DOMAIN conversion_factor
    /\ utype = ""
    /\ units_left = {}
    /\ result = NoCall

\* for utype,ufactor in conversion_factor.items():   (any iteration order)
LoadNextType ==
    /\ pc = "load"
    /\ units_left = {}
    /\ \E t \in types_left :
          /\ utype' = t
          /\ units_left' = DOMAIN conversion_factor[t]
          /\ types_left' = types_left \ {t}
    /\ UNCHANGED <<conversion_factor, unit_types, pc, result>>

\* Variant of unit_types_setitem: the loop variable stored instead of the
\* type, unit_types[unit] = unit
unit_types_setitem_unit(d, unit, ut) == DictSet(d, unit, unit)

\* unit_types[unit] = utype
unit_types_setitem(d, unit, ut) == DictSet(d, unit, ut)

\*     for unit in ufactor.keys(): unit_types[unit] = utype
LoadUnit ==
    /\ pc = "load"
    /\ \E unit \in units_left :
          /\ unit_types' = unit_types_setitem(unit_types, unit, utype)
          /\ units_left' = units_left \ {unit}
    /\ UNCHANGED <<conversion_factor, pc, types_left, utype, result>>

\* both loops exhausted: the module is imported
LoadDone ==
    /\ pc = "load"
    /\ units_left = {}
    /\ types_left = {}
    /\ pc' = "ready"
    /\ UNCHANGED <<conversion_factor, unit_types, types_left, utype, units_left, result>>

(***************************************************************************)
(* get_conversion_factor, lines 135-147, and convert, lines 149-160.       *)
(***************************************************************************)
\* Variant of get_conversion_factor: the tables read with .get(u, 1.0), so a
\* missing unit counts as the base unit.
get_conversion_factor_default(unit_type, u1, u2) ==
    IF unit_type \notin DOMAIN conversion_factor
    THEN Raises("KeyError", unit_type, "")
    ELSE LET tab  == conversion_factor[unit_type]
             get(u) == IF u \in DOMAIN tab THEN tab[u] ELSE FLit(10, -1)
         IN  IF FIsZero(get(u1))
             THEN Raises("ZeroDivisionError", "", "float division by zero")
             ELSE Returns(FDiv(get(u2), get(u1)))

\* Variant of get_conversion_factor: only the step from the base unit to u2,
\* factor[u2]; the division by factor[u1] is forgotten.
get_conversion_factor_from_base(unit_type, u1, u2) ==
    IF unit_type \notin DOMAIN conversion_factor
    THEN Raises("KeyError", unit_type, "")
    ELSE IF u2 \notin DOMAIN conversion_factor[unit_type]
    THEN Raises("KeyError", u2, "")
    ELSE IF u1 \notin DOMAIN conversion_factor[unit_type]
    THEN Raises("KeyError", u1, "")
    ELSE Returns(conversion_factor[unit_type][u2])

\* Variant of get_conversion_factor: factor[u2] * factor[u1]
get_conversion_factor_product(unit_type, u1, u2) ==
    IF unit_type \notin DOMAIN conversion_factor
    THEN Raises("KeyError", unit_type, "")
    ELSE IF u2 \notin DOMAIN conversion_factor[unit_type]
    THEN Raises("KeyError", u2, "")
    ELSE IF u1 \notin DOMAIN conversion_factor[unit_type]
    THEN Raises("KeyError", u1, "")
    ELSE Returns(FMul(conversion_factor[unit_type][u2],
                      conversion_factor[unit_type][u1]))

\* Variant of get_conversion_factor: the quotient inverted, factor[u1]/factor[u2]
get_conversion_factor_inverted(unit_type, u1, u2) ==
    IF unit_type \notin DOMAIN conversion_factor
    THEN Raises("KeyError", unit_type, "")
    ELSE IF u1 \notin DOMAIN conversion_factor[unit_type]
    THEN Raises("KeyError", u1, "")
    ELSE IF u2 \notin DOMAIN conversion_factor[unit_type]
    THEN Raises("KeyError", u2, "")
    ELSE IF FIsZero(conversion_factor[unit_type][u2])
    THEN Raises("ZeroDivisionError", "", "float division by zero")
    ELSE Returns(FDiv(conversion_factor[unit_type][u1],
                      conversion_factor[unit_type][u2]))

\* return conversion_factor[unit_type][u2] / conversion_factor[unit_type][u1]
\* The operands are evaluated left to right: the first missing key raises.
get_conversion_factor(unit_type, u1, u2) ==
    IF unit_type \notin DOMAIN conversion_factor
    THEN Raises("KeyError", unit_type, "")
    ELSE IF u2 \notin DOMAIN conversion_factor[unit_type]
    THEN Raises("KeyError", u2, "")
    ELSE IF u1 \notin DOMAIN conversion_factor[unit_type]
    THEN Raises("KeyError", u1, "")
    ELSE IF FIsZero(conversion_factor[unit_type][u1])
    THEN Raises("ZeroDivisionError", "", "float division by zero")
    ELSE Returns(FDiv(conversion_factor[unit_type][u2],
                      conversion_factor[unit_type][u1]))

\* ValueError("units must be one of %r, not %r or %r" % ...), lines 155-156
MsgUnknown == "units must be one of %r, not %r or %r"

\* ValueError("Cannot convert between unit types %(ut1)s --> %(ut2)s" % ...)
MsgTypes == "Cannot convert between unit types %(ut1)s --> %(ut2)s"

\* return x * f, where f is the outcome of get_conversion_factor: an
\* exception raised there propagates                             (line 160)
convert_return(x, f) ==
    IF f.kind = "value" THEN Returns(FMul(x, f.val)) ELSE f

\* Variant of convert: the test ut1 != ut2 of line 157 left out
convert_unchecked(x, u1, u2) ==
    IF u1 \notin DOMAIN unit_types \/ u2 \notin DOMAIN unit_types
    THEN Raises("ValueError", "", MsgUnknown)
    ELSE convert_return(x, get_conversion_factor(unit_types[u1], u1, u2))

\* Variant of convert: the types looked up with unit_types.get(u), which
\* gives None for a missing name instead of raising KeyError
convert_lookup_default(x, u1, u2) ==
    LET ut1 == IF u1 \in DOMAIN unit_types THEN unit_types[u1] ELSE "None"
        ut2 == IF u2 \in DOMAIN unit_types THEN unit_types[u2] ELSE "None"
    IN  IF ut1 # ut2 THEN Raises("ValueError", "", MsgTypes)
        ELSE convert_return(x, get_conversion_factor(ut1, u1, u2))

\* Variant of convert: x * factor[u2] / factor[u1], multiplied before divided
convert_multiply_first(x, u1, u2) ==
    IF u1 \notin DOMAIN unit_types \/ u2 \notin DOMAIN unit_types
    THEN Raises("ValueError", "", MsgUnknown)
    ELSE IF unit_types[u1] # unit_types[u2]
    THEN Raises("ValueError", "", MsgTypes)
    ELSE LET tab == conversion_factor[unit_types[u1]]
         IN  Returns(FDiv(FMul(x, tab[u2]), tab[u1]))

convert(x, u1, u2) ==
    IF u1 \notin DOMAIN unit_types \/ u2 \notin DOMAIN unit_types
    THEN Raises("ValueError", "", MsgUnknown)
    ELSE IF unit_types[u1] # unit_types[u2]
    THEN Raises("ValueError", "", MsgTypes)
    ELSE convert_return(x, get_conversion_factor(unit_types[u1], u1, u2))

(***************************************************************************)
(* Callers.  Arguments are drawn from the registered names and one name    *)
(* that is registered nowhere, the unit types and one unknown type, and a  *)
(* bounded set of numbers.                                                 *)
(***************************************************************************)
MaxX == 10

UnitArgs ==
    UNION {DOMAIN conversion_factor[T] : T \in DOMAIN conversion_factor}
    \cup {"furlong"}

TypeArgs == {"length", "density", "time", "mass"}

ValueArgs == {FFromInt(i) : i \in -MaxX..MaxX} \cup {FLit(1, -1), FLit(15, -1)}

CallGetConversionFactor(unit_type, u1, u2) ==
    /\ pc = "ready"
    /\ result' = [fn |-> "get_conversion_factor", unit_type |-> unit_type,
                  x |-> FZero(0), u1 |-> u1, u2 |-> u2,
                  out |-> get_conversion_factor(unit_type, u1, u2)]
    /\ pc' = "returned"
    /\ UNCHANGED <<conversion_factor, unit_types, types_left, utype, units_left>>

\* Variant of CallConvert: convert looks the types up with
\* unit_types.setdefault(u, None), which enters a missing name in the table
CallConvert_setdefault(x, u1, u2) ==
    /\ pc = "ready"
    /\ result' = [fn |-> "convert", unit_type |-> "", x |-> x, u1 |-> u1,
                  u2 |-> u2, out |-> convert(x, u1, u2)]
    /\ unit_types' = [u \in DOMAIN unit_types \cup {u1, u2} |->
                         IF u \in DOMAIN unit_types THEN unit_types[u] ELSE "None"]
    /\ pc' = "returned"
    /\ UNCHANGED <<conversion_factor, types_left, utype, units_left>>

CallConvert(x, u1, u2) ==
    /\ pc = "ready"
    /\ result' = [fn |-> "convert", unit_type |-> "", x |-> x, u1 |-> u1,
                  u2 |-> u2, out |-> convert(x, u1, u2)]
    /\ pc' = "returned"
    /\ UNCHANGED <<conversion_factor, unit_types, types_left, utype, units_left>>

\* the caller has used the outcome and is ready for its next call
Return ==
    /\ pc = "returned"
    /\ pc' = "ready"
    /\ result' = NoCall
    /\ UNCHANGED <<conversion_factor, unit_types, types_left, utype, units_left>>

Calls ==
    \/ \E unit_type \in TypeArgs, u1 \in UnitArgs, u2 \in UnitArgs :
          CallGetConversionFactor(unit_type, u1, u2)
    \/ \E x \in ValueArgs, u1 \in UnitArgs, u2 \in UnitArgs : CallConvert(x, u1, u2)

Next == LoadNextType \/ LoadUnit \/ LoadDone \/ Calls \/ Return

Spec == Init /\ [][Next]_vars

(***************************************************************************)
(* The vocabulary of the specification, in terms of the code.              *)
(***************************************************************************)
\* the quantity types whose table has the name u as a key
QuantityTypes(u) ==
    {T \in DOMAIN conversion_factor : u \in DOMAIN conversion_factor[T]}

\* u is a key of one of the tables
Registered(u) == QuantityTypes(u) # {}

\* The base units: "Angstrom for length ... and ps for time" (lines 22-24),
\* "density conversion factor. Base unit is A**-3" (line 45).
BaseUnit ==
    ("length" :> "Angstrom") @@ ("density" :> "Angstrom^{-3}") @@ ("time" :> "ps")

\* UnknownUnitError: the KeyError of a table lookup (line 147) or convert's
\* ValueError "units must be one of ..." (lines 154-156)
UnknownUnitError(out) ==
    \/ out.kind = "KeyError"
    \/ out.kind = "ValueError" /\ out.msg = MsgUnknown

\* IncompatibleUnitsError: convert's ValueError "Cannot convert between unit
\* types ..." (lines 157-159)
IncompatibleUnitsError(out) == out.kind = "ValueError" /\ out.msg = MsgTypes

\* a call of convert, or of get_conversion_factor, has just ended
ConvertReturned == pc = "returned" /\ result.fn = "convert"

FactorReturned == pc = "returned" /\ result.fn = "get_conversion_factor"

\* The relative tolerance the specification names for float identities
\* ("within floating-point tolerance, e.g. 1e-12 relative").
RelTol == FLit(1, -12)

\* |a - b| <= RelTol * |b|
WithinRelTol(a, b) == FLe(FAbs(FSub(a, b)), FMul(RelTol, FAbs(b)))

(***************************************************************************)
(* The claims.                                                             *)
(***************************************************************************)
\* C1: for every x and registered u1, u2 of different quantity types,
\* convert(x, u1, u2) raises the "Cannot convert between unit types" error
\* (IncompatibleUnitsError) and returns no value.
C1_IncompatibleUnits ==
    (/\ ConvertReturned
     /\ Registered(result.u1)
     /\ Registered(result.u2)
     /\ QuantityTypes(result.u1) \cap QuantityTypes(result.u2) = {})
    => /\ IncompatibleUnitsError(result.out)
       /\ ~UnknownUnitError(result.out)
       /\ result.out.kind # "value"

\* convert(x, 'Angstrom', 'ps') has raised the unit-type error
C1_Witness ==
    /\ ConvertReturned
    /\ result.u1 = "Angstrom"
    /\ result.u2 = "ps"
    /\ result.x = FFromInt(3)
    /\ result.out = Raises("ValueError", "", MsgTypes)

\* C2: convert(x, u1, u2) raises the "units must be one of" error
\* (UnknownUnitError), and not the unit-type error, whenever u1 or u2 or
\* both are unregistered, whatever the other argument is.
C2_UnknownUnit ==
    (ConvertReturned /\ (~Registered(result.u1) \/ ~Registered(result.u2)))
    => /\ result.out = Raises("ValueError", "", MsgUnknown)
       /\ UnknownUnitError(result.out)
       /\ ~IncompatibleUnitsError(result.out)

\* convert(1.0, 'Angstrom', 'furlong') has raised the unknown-unit error
C2_Witness ==
    /\ ConvertReturned
    /\ result.x = FFromInt(1)
    /\ result.u1 = "Angstrom"
    /\ result.u2 = "furlong"
    /\ UnknownUnitError(result.out)

C4_FactorUnknownUnit ==
    (/\ FactorReturned
     /\ result.unit_type \in DOMAIN conversion_factor
     /\ {result.u1, result.u2} \ DOMAIN conversion_factor[result.unit_type] # {})
    => /\ result.out.kind = "KeyError"
       /\ result.out.key \in
              {result.u1, result.u2} \ DOMAIN conversion_factor[result.unit_type]
       /\ UnknownUnitError(result.out)

\* get_conversion_factor('length', 'ps', 'ns') has raised KeyError
C4_Witness ==
    /\ FactorReturned
    /\ result.unit_type = "length"
    /\ result.u1 = "ps"
    /\ result.u2 = "ns"
    /\ result.out.kind = "KeyError"

\* C5: once the import loop has ended, no name is a key of two of the
\* tables, and unit_types maps u to T exactly if u is a key of
\* conversion_factor[T].
C5_ReverseIndex ==
    pc # "load" =>
        /\ \A T1, T2 \in DOMAIN conversion_factor :
               T1 # T2 =>
                   DOMAIN conversion_factor[T1] \cap DOMAIN conversion_factor[T2] = {}
        /\ \A u \in UnitArgs \cup DOMAIN unit_types :
               \A T \in TypeArgs \cup DOMAIN conversion_factor \cup {unit_types[v] : v \in DOMAIN unit_types} :
                   (u \in DOMAIN unit_types /\ unit_types[u] = T)
                   <=> (T \in DOMAIN conversion_factor
                        /\ u \in DOMAIN conversion_factor[T])

\* the import has ended with all nineteen names indexed
C5_Witness ==
    /\ pc = "ready"
    /\ Cardinality(DOMAIN unit_types) = 19
    /\ unit_types["nm"] = "length"
    /\ unit_types["Molar"] = "density"
    /\ unit_types["AKMA"] = "time"

\* C6 (as stated): for u1, u2 registered under T,
\* get_conversion_factor(T, u1, u2) * get_conversion_factor(T, u2, u1) is
\* exactly 1.0.
C6_RoundTripExact ==
    (/\ FactorReturned
     /\ result.unit_type \in DOMAIN conversion_factor
     /\ {result.u1, result.u2} \subseteq DOMAIN conversion_factor[result.unit_type])
    => LET back == get_conversion_factor(result.unit_type, result.u2, result.u1)
       IN  /\ result.out.kind = "value"
           /\ back.kind = "value"
           /\ FEq(FMul(result.out.val, back.val), FFromInt(1))

\* C6 (amended): the product of the two factors is 1.0 within the relative
\* tolerance 1e-12, and a value converted from u1 to u2 and back is the
\* original value within the same tolerance.
C6_RoundTripWithinTolerance ==
    /\ (/\ FactorReturned
        /\ result.unit_type \in DOMAIN conversion_factor
        /\ {result.u1, result.u2} \subseteq DOMAIN conversion_factor[result.unit_type])
       => LET back == get_conversion_factor(result.unit_type, result.u2, result.u1)
          IN  /\ result.out.kind = "value"
              /\ back.kind = "value"
              /\ WithinRelTol(FMul(result.out.val, back.val), FFromInt(1))
    /\ (/\ ConvertReturned
        /\ QuantityTypes(result.u1) \cap QuantityTypes(result.u2) # {})
       => /\ result.out.kind = "value"
          /\ LET back == convert(result.out.val, result.u2, result.u1)
             IN  back.kind = "value" /\ WithinRelTol(back.val, result.x)

\* get_conversion_factor('density', 'Molar', 'water') has returned, and its
\* product with the factor of the way back is not 1.0 but within tolerance
C6_Witness ==
    /\ FactorReturned
    /\ result.unit_type = "density"
    /\ result.u1 = "Molar"
    /\ result.u2 = "water"
    /\ result.out.kind = "value"
    /\ LET p == FMul(result.out.val,
                     get_conversion_factor("density", "water", "Molar").val)
       IN  ~FEq(p, FFromInt(1)) /\ WithinRelTol(p, FFromInt(1))

\* C7 (as stated): for u1, u2, u3 registered under T,
\* get_conversion_factor(T, u1, u3) is exactly
\* get_conversion_factor(T, u1, u2) * get_conversion_factor(T, u2, u3).
C7_ComposableExact ==
    (/\ FactorReturned
     /\ result.unit_type \in DOMAIN conversion_factor
     /\ {result.u1, result.u2} \subseteq DOMAIN conversion_factor[result.unit_type])
    => /\ result.out.kind = "value"
       /\ \A via \in DOMAIN conversion_factor[result.unit_type] :
              LET f12 == get_conversion_factor(result.unit_type, result.u1, via)
                  f23 == get_conversion_factor(result.unit_type, via, result.u2)
              IN  /\ f12.kind = "value"
                  /\ f23.kind = "value"
                  /\ FEq(result.out.val, FMul(f12.val, f23.val))

\* C7 (amended): the direct factor and the product of the factors through
\* any intermediate unit agree within the relative tolerance 1e-12.
C7_ComposableWithinTolerance ==
    (/\ FactorReturned
     /\ result.unit_type \in DOMAIN conversion_factor
     /\ {result.u1, result.u2} \subseteq DOMAIN conversion_factor[result.unit_type])
    => /\ result.out.kind = "value"
       /\ \A via \in DOMAIN conversion_factor[result.unit_type] :
              LET f12 == get_conversion_factor(result.unit_type, result.u1, via)
                  f23 == get_conversion_factor(result.unit_type, via, result.u2)
              IN  /\ f12.kind = "value"
                  /\ f23.kind = "value"
                  /\ WithinRelTol(FMul(f12.val, f23.val), result.out.val)

\* get_conversion_factor('density', 'Angstrom^{-3}', 'nm^{-3}') has returned,
\* and the product of the factors through 'Molar' differs from it, within
\* tolerance
C7_Witness ==
    /\ FactorReturned
    /\ result.unit_type = "density"
    /\ result.u1 = "Angstrom^{-3}"
    /\ result.u2 = "nm^{-3}"
    /\ result.out.kind = "value"
    /\ LET p == FMul(get_conversion_factor("density", "Angstrom^{-3}", "Molar").val,
                     get_conversion_factor("density", "Molar", "nm^{-3}").val)
       IN  ~FEq(p, result.out.val) /\ WithinRelTol(p, result.out.val)

\* C8: once the import has ended, no step changes conversion_factor (the
\* three unit tables in it) or unit_types, whatever is called and however
\* the call ends.
C8_ReadOnly ==
    [][pc # "load" =>
          conversion_factor' = conversion_factor /\ unit_types' = unit_types]_vars

\* a failing call has ended and the tables are those of the import
C8_Witness ==
    /\ ConvertReturned
    /\ result.u1 = "furlong"
    /\ result.out.kind = "ValueError"
    /\ conversion_factor = conversion_factor_literal
    /\ DOMAIN unit_types = UnitArgs \ {"furlong"}

\* C9 (as stated): for a unit u of type T with base unit b,
\* convert(x, u, b) = x * scale[T][u].
C9_ScaleToBase ==
    ConvertReturned =>
        \A T \in QuantityTypes(result.u1) :
            result.u2 = BaseUnit[T] =>
                result.out = Returns(FMul(result.x, conversion_factor[T][result.u1]))

\* C9 (amended): the stored factor converts from the base unit to the unit:
\* convert(x, b, u) = x * scale[T][u], and convert(x, u, b) = x * (1.0 / scale[T][u]).
C9_ScaleFromBase ==
    ConvertReturned =>
        /\ \A T \in QuantityTypes(result.u2) :
               result.u1 = BaseUnit[T] =>
                   result.out = Returns(FMul(result.x, conversion_factor[T][result.u2]))
        /\ \A T \in QuantityTypes(result.u1) :
               result.u2 = BaseUnit[T] =>
                   result.out = Returns(FMul(result.x,
                                             FDiv(FFromInt(1),
                                                  conversion_factor[T][result.u1])))

\* convert(1, 'Angstrom', 'nm') has returned the stored factor of 'nm', 0.1
C9_Witness ==
    /\ ConvertReturned
    /\ result.x = FFromInt(1)
    /\ result.u1 = "Angstrom"
    /\ result.u2 = "nm"
    /\ result.out = Returns(conversion_factor["length"]["nm"])
    /\ result.out = Returns(FLit(1, -1))

\* C10: every stored factor is strictly positive; a call on two units of
\* one table returns a value; and a call ends in exactly one of: a value,
\* UnknownUnitError, IncompatibleUnitsError.
C10_AlwaysAValue ==
    /\ \A T \in DOMAIN conversion_factor :
           \A u \in DOMAIN conversion_factor[T] :
               ~FIsZero(conversion_factor[T][u]) /\ conversion_factor[T][u].sign = 0
    /\ (/\ FactorReturned
        /\ result.unit_type \in DOMAIN conversion_factor
        /\ {result.u1, result.u2} \subseteq DOMAIN conversion_factor[result.unit_type])
       => result.out.kind = "value"
    /\ (ConvertReturned /\ QuantityTypes(result.u1) \cap QuantityTypes(result.u2) # {})
       => result.out.kind = "value"
    /\ pc = "returned" =>
           /\ \/ result.out.kind = "value"
              \/ UnknownUnitError(result.out)
              \/ IncompatibleUnitsError(result.out)
           /\ ~(result.out.kind = "value" /\ UnknownUnitError(result.out))
           /\ ~(result.out.kind = "value" /\ IncompatibleUnitsError(result.out))
           /\ ~(UnknownUnitError(result.out) /\ IncompatibleUnitsError(result.out))

\* get_conversion_factor('time', 'second', 'ps') has divided by the smallest
\* stored factor, 1e-12, and returned
C10_Witness ==
    /\ FactorReturned
    /\ result.unit_type = "time"
    /\ result.u1 = "second"
    /\ result.u2 = "ps"
    /\ result.out.kind = "value"
    /\ conversion_factor["time"]["second"] = FLit(1, -12)

====
